---- MODULE Spec2Model ----
(***************************************************************************)
(* mini-twitter: the FastAPI handlers of app/main.py over the tables of    *)
(* app/models.py.  The relational store is the only shared state; each     *)
(* request is served by one worker thread of the server.                   *)
(***************************************************************************)
EXTENDS Integers, Sequences, FiniteSets, TLC

VARIABLES users, tweets, likes, follows, nextId, now, threads, resp

vars == <<users, tweets, likes, follows, nextId, now, threads, resp>>
db == <<users, tweets, likes, follows, nextId>>

(* ------------------------------ bounds --------------------------------- *)
MaxUsers == 3
MaxTweets == 2
MaxLikes == 2
MaxFollows == 2
MaxClock == 1
NumThreads == 2

(* ------------------------- program constants --------------------------- *)
SkipMin == 0
LimitMin == 1
LimitMax == 100
LimitDefault == 10

NULL == 0
NoToken == 0

UsernameSeq == <<"alice", "bob", "carol", "dave">>
Usernames == {UsernameSeq[i] : i \in 1 .. MaxUsers}
Password == "password123"
Contents == {<<"a", "B">>, <<"c">>}
Sorts == {"asc", "desc", "up"}
SkipInputs == {-1, 0, 1, 2}
LimitInputs == {0, 1, 2, LimitDefault, LimitMax, LimitMax + 1}
PageSizes == {1, 5}
Threads == 1 .. NumThreads

Min(a, b) == IF a < b THEN a ELSE b
Max(a, b) == IF a > b THEN a ELSE b

(* ------------------------------ tables --------------------------------- *)
UserIds == {u.id : u \in users}
TweetIds == {t.id : t \in tweets}

\* models.User: id primary key, username unique
User(id, username, hashed_password) ==
  [id |-> id, username |-> username, hashed_password |-> hashed_password]

\* models.Tweet: created_at has server_default now()
Tweet(id, content, owner_id, created_at) ==
  [id |-> id, content |-> content, owner_id |-> owner_id, created_at |-> created_at]

\* models.Like: no uniqueness constraint on (user_id, tweet_id)
Like(id, user_id, tweet_id) ==
  [id |-> id, user_id |-> user_id, tweet_id |-> tweet_id]

\* models.Follow: UniqueConstraint(follower_id, followed_id)
Follow(id, follower_id, followed_id) ==
  [id |-> id, follower_id |-> follower_id, followed_id |-> followed_id]

\* users.username is unique=True: the store rejects a second row of the name
NoUsernameIndex(username) == FALSE
UsernameUnique(username) == \E u \in users : u.username = username

\* unique_follower_followed: the store rejects a second row of the ordered pair
NoFollowConstraint(follower_id, followed_id) == FALSE
UniqueFollowerFollowed(follower_id, followed_id) ==
  \E f \in follows : f.follower_id = follower_id /\ f.followed_id = followed_id

\* update_tweet line 141, delete_tweet line 159: the caller owns the tweet
AnyoneIsOwner(db_tweet, user_id) == TRUE
IsOwner(db_tweet, user_id) == db_tweet.owner_id = user_id

\* auth.hash_password
HashPassword(pw) == <<"hash", pw>>

\* auth.get_current_user: the verified identity of a bearer token, NULL when
\* the token is missing or invalid
GetCurrentUser(token) == IF token \in UserIds THEN token ELSE NULL

Tokens == UserIds \cup {NoToken}

(* ---------------------------- requests --------------------------------- *)
Request(op, token, id, username, content, skip, limit, sort) ==
  [op |-> op, token |-> token, id |-> id, username |-> username,
   content |-> content, skip |-> skip, limit |-> limit, sort |-> sort]

NoRequest == Request("none", NoToken, NULL, "", <<>>, 0, 0, "")

Response(req, status, detail, body) ==
  [req |-> req, status |-> status, detail |-> detail, body |-> body]

Idle == NoRequest

Init ==
  /\ users = {}
  /\ tweets = {}
  /\ likes = {}
  /\ follows = {}
  /\ nextId = [users |-> 1, tweets |-> 1, likes |-> 1, follows |-> 1]
  /\ now = 0
  /\ threads = [t \in Threads |-> Idle]
  /\ resp = Response(NoRequest, 0, "", <<>>)

\* the store's clock advances
Tick ==
  /\ now < MaxClock
  /\ now' = now + 1
  /\ UNCHANGED <<db, threads, resp>>

(* ----------------------------- register -------------------------------- *)
\* register, lines 25-27: the existence query and the 400 of a duplicate
RegisterCheck(t, username) ==
  LET req == Request("register", NoToken, NULL, username, <<>>, 0, 0, "") IN
  /\ threads[t] = Idle
  /\ IF \E existing \in users : existing.username = username
       THEN /\ resp' = Response(req, 400, "Username already registered", <<>>)
            /\ UNCHANGED threads
       ELSE /\ threads' = [threads EXCEPT ![t] = req]
            /\ UNCHANGED resp
  /\ UNCHANGED <<db, now>>

\* register, lines 29-34: the insert, committed against the unique index
RegisterCommit(t) ==
  LET req == threads[t]
      new_user == User(nextId.users, req.username, HashPassword(Password)) IN
  /\ req.op = "register"
  /\ threads' = [threads EXCEPT ![t] = Idle]
  /\ IF UsernameUnique(req.username)
       THEN /\ resp' = Response(req, 500, "Internal Server Error", <<>>)
            /\ UNCHANGED db
       ELSE /\ nextId.users <= MaxUsers
            /\ users' = users \cup {new_user}
            /\ nextId' = [nextId EXCEPT !.users = @ + 1]
            /\ resp' = Response(req, 201, "", <<new_user>>)
            /\ UNCHANGED <<tweets, likes, follows>>
  /\ UNCHANGED now

(* ------------------------- the list queries ---------------------------- *)
\* schemas.TweetResponse: likes_count defaults to 0 when the object has none
TweetResponse(t, likes_count) ==
  [id |-> t.id, content |-> t.content, owner_id |-> t.owner_id,
   created_at |-> t.created_at, likes_count |-> likes_count]

\* Tweet LEFT OUTER JOIN Like ON likes.tweet_id = tweets.id: one row per
\* matching like, and one row with a NULL like for a tweet that has none
OuterJoinLike(ts) ==
  {[tweet |-> t, like_id |-> l.id] : <<t, l>> \in
      {p \in ts \X likes : p[2].tweet_id = p[1].id}}
  \cup {[tweet |-> t, like_id |-> NULL] :
      t \in {x \in ts : ~ \E l \in likes : l.tweet_id = x.id}}

GroupByTweetCountStar(rows) ==
  {TweetResponse(t, Cardinality({r \in rows : r.tweet = t})) : t \in {r.tweet : r \in rows}}

\* GROUP BY tweets.id with count(likes.id): count skips the NULL like
GroupByTweet(rows) ==
  {TweetResponse(t, Cardinality({r \in rows : r.tweet = t /\ r.like_id # NULL})) :
      t \in {r.tweet : r \in rows}}

RECURSIVE Orderings(_)
Orderings(S) ==
  IF S = {} THEN {<<>>}
  ELSE UNION {{<<x>> \o p : p \in Orderings(S \ {x})} : x \in S}

OrderByAlwaysDesc(rows, sort) ==
  {s \in Orderings(rows) :
     \A i \in 1 .. Len(s) - 1 : s[i].created_at >= s[i + 1].created_at}

\* ORDER BY tweets.created_at asc | desc: rows of equal created_at come back
\* in whatever order the store produces
OrderByCreatedAt(rows, sort) ==
  {s \in Orderings(rows) :
     \A i \in 1 .. Len(s) - 1 :
       IF sort = "asc" THEN s[i].created_at <= s[i + 1].created_at
                       ELSE s[i].created_at >= s[i + 1].created_at}

\* .offset(skip).limit(limit)
OffsetLimit(s, skip, limit) == SubSeq(s, skip + 1, Min(Len(s), skip + limit))

\* Query(0, ge=0), Query(10, ge=1, le=100), Query("desc", regex="^(asc|desc)$")
ValidPage(skip, limit, sort) ==
  /\ skip >= SkipMin
  /\ limit >= LimitMin
  /\ limit <= LimitMax
  /\ sort \in {"asc", "desc"}

\* the pages a list query over the tweets ts may return
ListQuery(ts, skip, limit, sort) ==
  {OffsetLimit(s, skip, limit) :
     s \in OrderByCreatedAt(GroupByTweet(OuterJoinLike(ts)), sort)}

\* get_tweets: the responses the handler may give in the current state
GetTweets(skip, limit, sort) ==
  LET req == Request("get_tweets", NoToken, NULL, "", <<>>, skip, limit, sort) IN
  IF ~ ValidPage(skip, limit, sort)
    THEN {Response(req, 422, "validation error", <<>>)}
    ELSE {Response(req, 200, "", page) : page \in ListQuery(tweets, skip, limit, sort)}

\* get_mytweets
GetMyTweets(token, skip, limit, sort) ==
  LET req == Request("get_mytweets", token, NULL, "", <<>>, skip, limit, sort)
      user_id == GetCurrentUser(token)
      mine == {t \in tweets : t.owner_id = user_id} IN
  IF user_id = NULL
    THEN {Response(req, 401, "Not authenticated", <<>>)}
    ELSE IF ~ ValidPage(skip, limit, sort)
    THEN {Response(req, 422, "validation error", <<>>)}
    ELSE {Response(req, 200, "", page) : page \in ListQuery(mine, skip, limit, sort)}

\* get_feed, lines 298-300: the subquery of the accounts user_id follows
FollowerIds(user_id) == {f.follower_id : f \in {x \in follows : x.followed_id = user_id}}
FollowingIds(user_id) == {f.followed_id : f \in {x \in follows : x.follower_id = user_id}}

\* get_feed
GetFeed(token, skip, limit, sort) ==
  LET req == Request("get_feed", token, NULL, "", <<>>, skip, limit, sort)
      user_id == GetCurrentUser(token)
      feed == {t \in tweets : t.owner_id \in FollowingIds(user_id)} IN
  IF user_id = NULL
    THEN {Response(req, 401, "Not authenticated", <<>>)}
    ELSE IF ~ ValidPage(skip, limit, sort)
    THEN {Response(req, 422, "validation error", <<>>)}
    ELSE {Response(req, 200, "", page) : page \in ListQuery(feed, skip, limit, sort)}

Lower(c) == IF c = "A" THEN "a" ELSE IF c = "B" THEN "b" ELSE IF c = "C" THEN "c" ELSE c

\* content ILIKE pattern: % matches any run of characters, _ any one character,
\* every other character itself, letters without regard to case
RECURSIVE ILike(_, _)
ILike(text, pattern) ==
  IF pattern = <<>> THEN text = <<>>
  ELSE IF Head(pattern) = "%"
    THEN ILike(text, Tail(pattern)) \/ (text # <<>> /\ ILike(Tail(text), pattern))
  ELSE /\ text # <<>>
       /\ Head(pattern) = "_" \/ Lower(Head(pattern)) = Lower(Head(text))
       /\ ILike(Tail(text), Tail(pattern))

\* search_tweets: no sort parameter, always created_at desc
SearchTweets(keyword, skip, limit) ==
  LET req == Request("search_tweets", NoToken, NULL, "", keyword, skip, limit, "")
      matching == {t \in tweets : ILike(t.content, <<"%">> \o keyword \o <<"%">>)} IN
  IF Len(keyword) < 1 \/ ~ ValidPage(skip, limit, "desc")
    THEN {Response(req, 422, "validation error", <<>>)}
    ELSE {Response(req, 200, "", page) : page \in ListQuery(matching, skip, limit, "desc")}

\* GET /tweets/search?keyword=..&sort=..: search_tweets declares no sort
\* parameter, and a query parameter the handler does not declare is ignored
SearchTweetsSort(keyword, skip, limit, sort) == SearchTweets(keyword, skip, limit)

\* schemas.UserProfileResponse
UserProfileResponse(user, tweet_count, follower_count, following_count) ==
  [id |-> user.id, username |-> user.username, tweet_count |-> tweet_count,
   follower_count |-> follower_count, following_count |-> following_count]

GetUserProfileSwapped(user_id) ==
  LET req == Request("get_user_profile", NoToken, user_id, "", <<>>, 0, 0, "")
      found == {u \in users : u.id = user_id} IN
  IF found = {}
    THEN Response(req, 404, "User not found", <<>>)
    ELSE LET user == CHOOSE u \in found : TRUE
             tweet_count == Cardinality({t \in tweets : t.owner_id = user_id})
             follower_count == Cardinality({f \in follows : f.follower_id = user_id})
             following_count == Cardinality({f \in follows : f.followed_id = user_id})
         IN Response(req, 200, "",
              <<UserProfileResponse(user, tweet_count, follower_count, following_count)>>)

\* get_user_profile
GetUserProfile(user_id) ==
  LET req == Request("get_user_profile", NoToken, user_id, "", <<>>, 0, 0, "")
      found == {u \in users : u.id = user_id} IN
  IF found = {}
    THEN Response(req, 404, "User not found", <<>>)
    ELSE LET user == CHOOSE u \in found : TRUE
             tweet_count == Cardinality({t \in tweets : t.owner_id = user_id})
             follower_count == Cardinality({f \in follows : f.followed_id = user_id})
             following_count == Cardinality({f \in follows : f.follower_id = user_id})
         IN Response(req, 200, "",
              <<UserProfileResponse(user, tweet_count, follower_count, following_count)>>)

(* ------------------------------ tweets --------------------------------- *)
CreateTweetNoAuth(token, content) ==
  LET req == Request("create_tweet", token, NULL, "", content, 0, 0, "")
      user_id == GetCurrentUser(token)
      new_tweet == Tweet(nextId.tweets, content, user_id, now) IN
  /\ nextId.tweets <= MaxTweets
  /\ tweets' = tweets \cup {new_tweet}
  /\ nextId' = [nextId EXCEPT !.tweets = @ + 1]
  /\ resp' = Response(req, 200, "", <<TweetResponse(new_tweet, 0)>>)
  /\ UNCHANGED <<users, likes, follows, now, threads>>

\* create_tweet
CreateTweet(token, content) ==
  LET req == Request("create_tweet", token, NULL, "", content, 0, 0, "")
      user_id == GetCurrentUser(token)
      new_tweet == Tweet(nextId.tweets, content, user_id, now) IN
  /\ IF user_id = NULL
       THEN /\ resp' = Response(req, 401, "Not authenticated", <<>>)
            /\ UNCHANGED db
       ELSE /\ nextId.tweets <= MaxTweets
            /\ tweets' = tweets \cup {new_tweet}
            /\ nextId' = [nextId EXCEPT !.tweets = @ + 1]
            /\ resp' = Response(req, 200, "", <<TweetResponse(new_tweet, 0)>>)
            /\ UNCHANGED <<users, likes, follows>>
  /\ UNCHANGED <<now, threads>>

UpdateTweetTouch(token, tweet_id, content) ==
  LET req == Request("update_tweet", token, tweet_id, "", content, 0, 0, "")
      user_id == GetCurrentUser(token)
      found == {t \in tweets : t.id = tweet_id} IN
  /\ IF user_id = NULL
       THEN /\ resp' = Response(req, 401, "Not authenticated", <<>>)
            /\ UNCHANGED db
       ELSE IF found = {}
       THEN /\ resp' = Response(req, 404, "Tweet not found", <<>>)
            /\ UNCHANGED db
       ELSE LET db_tweet == CHOOSE t \in found : TRUE
                updated == [db_tweet EXCEPT !.content = content, !.created_at = now] IN
            IF ~ IsOwner(db_tweet, user_id)
              THEN /\ resp' = Response(req, 403, "Not authorized to update this tweet", <<>>)
                   /\ UNCHANGED db
              ELSE /\ tweets' = (tweets \ {db_tweet}) \cup {updated}
                   /\ resp' = Response(req, 200, "", <<TweetResponse(updated, 0)>>)
                   /\ UNCHANGED <<users, likes, follows, nextId>>
  /\ UNCHANGED <<now, threads>>

\* update_tweet
UpdateTweet(token, tweet_id, content) ==
  LET req == Request("update_tweet", token, tweet_id, "", content, 0, 0, "")
      user_id == GetCurrentUser(token)
      found == {t \in tweets : t.id = tweet_id} IN
  /\ IF user_id = NULL
       THEN /\ resp' = Response(req, 401, "Not authenticated", <<>>)
            /\ UNCHANGED db
       ELSE IF found = {}
       THEN /\ resp' = Response(req, 404, "Tweet not found", <<>>)
            /\ UNCHANGED db
       ELSE LET db_tweet == CHOOSE t \in found : TRUE
                updated == [db_tweet EXCEPT !.content = content] IN
            IF ~ IsOwner(db_tweet, user_id)
              THEN /\ resp' = Response(req, 403, "Not authorized to update this tweet", <<>>)
                   /\ UNCHANGED db
              ELSE /\ tweets' = (tweets \ {db_tweet}) \cup {updated}
                   /\ resp' = Response(req, 200, "", <<TweetResponse(updated, 0)>>)
                   /\ UNCHANGED <<users, likes, follows, nextId>>
  /\ UNCHANGED <<now, threads>>

DeleteTweetDropLikes(token, tweet_id) ==
  LET req == Request("delete_tweet", token, tweet_id, "", <<>>, 0, 0, "")
      user_id == GetCurrentUser(token)
      found == {t \in tweets : t.id = tweet_id} IN
  /\ IF user_id = NULL
       THEN /\ resp' = Response(req, 401, "Not authenticated", <<>>)
            /\ UNCHANGED db
       ELSE IF found = {}
       THEN /\ resp' = Response(req, 404, "Tweet not found", <<>>)
            /\ UNCHANGED db
       ELSE LET db_tweet == CHOOSE t \in found : TRUE IN
            IF ~ IsOwner(db_tweet, user_id)
              THEN /\ resp' = Response(req, 403, "Not authorized to delete this tweet", <<>>)
                   /\ UNCHANGED db
              ELSE /\ tweets' = tweets \ {db_tweet}
                   /\ likes' = {[l EXCEPT !.tweet_id = NULL] : l \in likes}
                   /\ resp' = Response(req, 204, "", <<>>)
                   /\ UNCHANGED <<users, follows, nextId>>
  /\ UNCHANGED <<now, threads>>

DeleteTweetForbiddenFirst(token, tweet_id) ==
  LET req == Request("delete_tweet", token, tweet_id, "", <<>>, 0, 0, "")
      user_id == GetCurrentUser(token)
      found == {t \in tweets : t.id = tweet_id} IN
  /\ IF user_id = NULL
       THEN /\ resp' = Response(req, 401, "Not authenticated", <<>>)
            /\ UNCHANGED db
       ELSE IF ~ \E t \in found : IsOwner(t, user_id)
       THEN /\ resp' = Response(req, 403, "Not authorized to delete this tweet", <<>>)
            /\ UNCHANGED db
       ELSE LET db_tweet == CHOOSE t \in found : TRUE IN
            /\ tweets' = tweets \ {db_tweet}
            /\ likes' = {IF l.tweet_id = tweet_id
                           THEN [l EXCEPT !.tweet_id = NULL] ELSE l : l \in likes}
            /\ resp' = Response(req, 204, "", <<>>)
            /\ UNCHANGED <<users, follows, nextId>>
  /\ UNCHANGED <<now, threads>>

\* delete_tweet: the session first detaches the tweet's likes (Tweet.likes has
\* no delete cascade, so their tweet_id is set to NULL), then deletes the row
DeleteTweet(token, tweet_id) ==
  LET req == Request("delete_tweet", token, tweet_id, "", <<>>, 0, 0, "")
      user_id == GetCurrentUser(token)
      found == {t \in tweets : t.id = tweet_id} IN
  /\ IF user_id = NULL
       THEN /\ resp' = Response(req, 401, "Not authenticated", <<>>)
            /\ UNCHANGED db
       ELSE IF found = {}
       THEN /\ resp' = Response(req, 404, "Tweet not found", <<>>)
            /\ UNCHANGED db
       ELSE LET db_tweet == CHOOSE t \in found : TRUE IN
            IF ~ IsOwner(db_tweet, user_id)
              THEN /\ resp' = Response(req, 403, "Not authorized to delete this tweet", <<>>)
                   /\ UNCHANGED db
              ELSE /\ tweets' = tweets \ {db_tweet}
                   /\ likes' = {IF l.tweet_id = tweet_id
                                  THEN [l EXCEPT !.tweet_id = NULL] ELSE l : l \in likes}
                   /\ resp' = Response(req, 204, "", <<>>)
                   /\ UNCHANGED <<users, follows, nextId>>
  /\ UNCHANGED <<now, threads>>

(* ------------------------------- likes --------------------------------- *)
LikeCheckAnyTweet(t, token, tweet_id) ==
  LET req == Request("like_tweet", token, tweet_id, "", <<>>, 0, 0, "")
      user_id == GetCurrentUser(token) IN
  /\ threads[t] = Idle
  /\ IF user_id = NULL
       THEN /\ resp' = Response(req, 401, "Not authenticated", <<>>)
            /\ UNCHANGED threads
       ELSE IF \E l \in likes : l.user_id = user_id /\ l.tweet_id = tweet_id
       THEN /\ resp' = Response(req, 400, "You already liked this tweet", <<>>)
            /\ UNCHANGED threads
       ELSE /\ threads' = [threads EXCEPT ![t] = req]
            /\ UNCHANGED resp
  /\ UNCHANGED <<db, now>>

\* like_tweet, lines 174-183: the tweet must exist and the caller must not
\* have liked it yet
LikeCheck(t, token, tweet_id) ==
  LET req == Request("like_tweet", token, tweet_id, "", <<>>, 0, 0, "")
      user_id == GetCurrentUser(token) IN
  /\ threads[t] = Idle
  /\ IF user_id = NULL
       THEN /\ resp' = Response(req, 401, "Not authenticated", <<>>)
            /\ UNCHANGED threads
       ELSE IF ~ \E tw \in tweets : tw.id = tweet_id
       THEN /\ resp' = Response(req, 404, "Tweet not found", <<>>)
            /\ UNCHANGED threads
       ELSE IF \E l \in likes : l.user_id = user_id /\ l.tweet_id = tweet_id
       THEN /\ resp' = Response(req, 400, "You already liked this tweet", <<>>)
            /\ UNCHANGED threads
       ELSE /\ threads' = [threads EXCEPT ![t] = req]
            /\ UNCHANGED resp
  /\ UNCHANGED <<db, now>>

\* like_tweet, lines 185-189: the insert; the likes table has no uniqueness
\* constraint to reject it
LikeInsert(t) ==
  LET req == threads[t]
      new_like == Like(nextId.likes, GetCurrentUser(req.token), req.id) IN
  /\ req.op = "like_tweet"
  /\ nextId.likes <= MaxLikes
  /\ threads' = [threads EXCEPT ![t] = Idle]
  /\ likes' = likes \cup {new_like}
  /\ nextId' = [nextId EXCEPT !.likes = @ + 1]
  /\ resp' = Response(req, 200, "", <<new_like>>)
  /\ UNCHANGED <<users, tweets, follows, now>>

\* like_tweet, line 187, when the tweet was deleted after the check and the
\* store enforces likes.tweet_id -> tweets.id: the commit fails
LikeRejected(t) ==
  LET req == threads[t] IN
  /\ req.op = "like_tweet"
  /\ ~ \E tw \in tweets : tw.id = req.id
  /\ threads' = [threads EXCEPT ![t] = Idle]
  /\ resp' = Response(req, 500, "Internal Server Error", <<>>)
  /\ UNCHANGED <<db, now>>

UnlikeTweetEveryone(token, tweet_id) ==
  LET req == Request("unlike_tweet", token, tweet_id, "", <<>>, 0, 0, "")
      user_id == GetCurrentUser(token)
      found == {l \in likes : l.user_id = user_id /\ l.tweet_id = tweet_id} IN
  /\ IF user_id = NULL
       THEN /\ resp' = Response(req, 401, "Not authenticated", <<>>)
            /\ UNCHANGED db
       ELSE IF found = {}
       THEN /\ resp' = Response(req, 404, "Like not found", <<>>)
            /\ UNCHANGED db
       ELSE /\ likes' = {l \in likes : l.tweet_id # tweet_id}
            /\ resp' = Response(req, 200, "Unliked successfully", <<>>)
            /\ UNCHANGED <<users, tweets, follows, nextId>>
  /\ UNCHANGED <<now, threads>>

\* unlike_tweet
UnlikeTweet(token, tweet_id) ==
  LET req == Request("unlike_tweet", token, tweet_id, "", <<>>, 0, 0, "")
      user_id == GetCurrentUser(token)
      found == {l \in likes : l.user_id = user_id /\ l.tweet_id = tweet_id} IN
  /\ IF user_id = NULL
       THEN /\ resp' = Response(req, 401, "Not authenticated", <<>>)
            /\ UNCHANGED db
       ELSE IF found = {}
       THEN /\ resp' = Response(req, 404, "Like not found", <<>>)
            /\ UNCHANGED db
       ELSE \E like \in found :
            /\ likes' = likes \ {like}
            /\ resp' = Response(req, 200, "Unliked successfully", <<>>)
            /\ UNCHANGED <<users, tweets, follows, nextId>>
  /\ UNCHANGED <<now, threads>>

\* get_likes
GetLikes(tweet_id) ==
  LET req == Request("get_likes", NoToken, tweet_id, "", <<>>, 0, 0, "") IN
  IF ~ \E tw \in tweets : tw.id = tweet_id
    THEN Response(req, 404, "Tweet not found", <<>>)
    ELSE Response(req, 200, "",
           {u \in users : \E l \in likes : l.user_id = u.id /\ l.tweet_id = tweet_id})

(* ------------------------------ follows -------------------------------- *)
FollowCheckNoTarget(t, token, followed_id) ==
  LET req == Request("follow_user", token, followed_id, "", <<>>, 0, 0, "")
      user_id == GetCurrentUser(token) IN
  /\ threads[t] = Idle
  /\ IF user_id = NULL
       THEN /\ resp' = Response(req, 401, "Not authenticated", <<>>)
            /\ UNCHANGED threads
       ELSE IF user_id = followed_id
       THEN /\ resp' = Response(req, 400, "You cannot follow yourself", <<>>)
            /\ UNCHANGED threads
       ELSE IF \E existing \in follows :
                    existing.follower_id = user_id /\ existing.followed_id = followed_id
       THEN /\ resp' = Response(req, 400, "You are already following this user", <<>>)
            /\ UNCHANGED threads
       ELSE /\ threads' = [threads EXCEPT ![t] = req]
            /\ UNCHANGED resp
  /\ UNCHANGED <<db, now>>

FollowCheckNoSelfGuard(t, token, followed_id) ==
  LET req == Request("follow_user", token, followed_id, "", <<>>, 0, 0, "")
      user_id == GetCurrentUser(token) IN
  /\ threads[t] = Idle
  /\ IF user_id = NULL
       THEN /\ resp' = Response(req, 401, "Not authenticated", <<>>)
            /\ UNCHANGED threads
       ELSE IF ~ \E u \in users : u.id = followed_id
       THEN /\ resp' = Response(req, 404, "User to follow not found", <<>>)
            /\ UNCHANGED threads
       ELSE IF \E existing \in follows :
                    existing.follower_id = user_id /\ existing.followed_id = followed_id
       THEN /\ resp' = Response(req, 400, "You are already following this user", <<>>)
            /\ UNCHANGED threads
       ELSE /\ threads' = [threads EXCEPT ![t] = req]
            /\ UNCHANGED resp
  /\ UNCHANGED <<db, now>>

\* follow_user, lines 250-262
FollowCheck(t, token, followed_id) ==
  LET req == Request("follow_user", token, followed_id, "", <<>>, 0, 0, "")
      user_id == GetCurrentUser(token) IN
  /\ threads[t] = Idle
  /\ IF user_id = NULL
       THEN /\ resp' = Response(req, 401, "Not authenticated", <<>>)
            /\ UNCHANGED threads
       ELSE IF user_id = followed_id
       THEN /\ resp' = Response(req, 400, "You cannot follow yourself", <<>>)
            /\ UNCHANGED threads
       ELSE IF ~ \E u \in users : u.id = followed_id
       THEN /\ resp' = Response(req, 404, "User to follow not found", <<>>)
            /\ UNCHANGED threads
       ELSE IF \E existing \in follows :
                    existing.follower_id = user_id /\ existing.followed_id = followed_id
       THEN /\ resp' = Response(req, 400, "You are already following this user", <<>>)
            /\ UNCHANGED threads
       ELSE /\ threads' = [threads EXCEPT ![t] = req]
            /\ UNCHANGED resp
  /\ UNCHANGED <<db, now>>

\* follow_user, lines 264-268: the insert, committed against
\* unique_follower_followed; the IntegrityError of a duplicate is not caught
FollowCommit(t) ==
  LET req == threads[t]
      user_id == GetCurrentUser(req.token)
      new_follow == Follow(nextId.follows, user_id, req.id) IN
  /\ req.op = "follow_user"
  /\ threads' = [threads EXCEPT ![t] = Idle]
  /\ IF UniqueFollowerFollowed(user_id, req.id)
       THEN /\ resp' = Response(req, 500, "Internal Server Error", <<>>)
            /\ UNCHANGED db
       ELSE /\ nextId.follows <= MaxFollows
            /\ follows' = follows \cup {new_follow}
            /\ nextId' = [nextId EXCEPT !.follows = @ + 1]
            /\ resp' = Response(req, 200, "", <<new_follow>>)
            /\ UNCHANGED <<users, tweets, likes>>
  /\ UNCHANGED now

UnfollowUserBothWays(token, user_id) ==
  LET req == Request("unfollow_user", token, user_id, "", <<>>, 0, 0, "")
      me == GetCurrentUser(token)
      found == {f \in follows : f.follower_id = me /\ f.followed_id = user_id} IN
  /\ IF me = NULL
       THEN /\ resp' = Response(req, 401, "Not authenticated", <<>>)
            /\ UNCHANGED db
       ELSE IF found = {}
       THEN /\ resp' = Response(req, 404, "Follow relationship not found", <<>>)
            /\ UNCHANGED db
       ELSE /\ follows' = {f \in follows :
                             /\ ~ (f.follower_id = me /\ f.followed_id = user_id)
                             /\ ~ (f.follower_id = user_id /\ f.followed_id = me)}
            /\ resp' = Response(req, 200, "Unfollowed successfully", <<>>)
            /\ UNCHANGED <<users, tweets, likes, nextId>>
  /\ UNCHANGED <<now, threads>>

\* unfollow_user
UnfollowUser(token, user_id) ==
  LET req == Request("unfollow_user", token, user_id, "", <<>>, 0, 0, "")
      me == GetCurrentUser(token)
      found == {f \in follows : f.follower_id = me /\ f.followed_id = user_id} IN
  /\ IF me = NULL
       THEN /\ resp' = Response(req, 401, "Not authenticated", <<>>)
            /\ UNCHANGED db
       ELSE IF found = {}
       THEN /\ resp' = Response(req, 404, "Follow relationship not found", <<>>)
            /\ UNCHANGED db
       ELSE \E follow \in found :
            /\ follows' = follows \ {follow}
            /\ resp' = Response(req, 200, "Unfollowed successfully", <<>>)
            /\ UNCHANGED <<users, tweets, likes, nextId>>
  /\ UNCHANGED <<now, threads>>

(* --------------------------- specifications --------------------------- *)
\* the requests of each group of handlers, served by the threads T for the
\* bearer tokens toks
RegisterOps(T) ==
  \/ \E t \in T, username \in Usernames : RegisterCheck(t, username)
  \/ \E t \in T : RegisterCommit(t)

PostOps(toks, contents) ==
  \/ \E token \in toks, content \in contents : CreateTweet(token, content)
  \/ \E token \in toks, id \in 1 .. MaxTweets : DeleteTweet(token, id)

EditOps(toks, contents) ==
  \E token \in toks, id \in 1 .. MaxTweets, content \in contents :
    UpdateTweet(token, id, content)

LikeOps(T, toks) ==
  \/ \E t \in T, token \in toks, id \in 1 .. MaxTweets : LikeCheck(t, token, id)
  \/ \E t \in T : LikeInsert(t)
  \/ \E t \in T : LikeRejected(t)
  \/ \E token \in toks, id \in 1 .. MaxTweets : UnlikeTweet(token, id)

FollowOps(T, toks) ==
  \/ \E t \in T, token \in toks, id \in UserIds \cup {nextId.users} :
       FollowCheck(t, token, id)
  \/ \E t \in T : FollowCommit(t)
  \/ \E token \in toks, id \in UserIds : UnfollowUser(token, id)

\* the whole server
Next ==
  \/ Tick
  \/ RegisterOps(Threads)
  \/ PostOps(Tokens, Contents)
  \/ EditOps(Tokens, Contents)
  \/ LikeOps(Threads, Tokens)
  \/ FollowOps(Threads, Tokens)

Spec == Init /\ [][Next]_vars

\* the store after alice and bob have registered one after the other
Alice == 1
Bob == 2
Registered == {User(i, UsernameSeq[i], HashPassword(Password)) : i \in {Alice, Bob}}

InitRegistered ==
  /\ users = Registered
  /\ tweets = {}
  /\ likes = {}
  /\ follows = {}
  /\ nextId = [users |-> Bob + 1, tweets |-> 1, likes |-> 1, follows |-> 1]
  /\ now = 0
  /\ threads = [t \in Threads |-> Idle]
  /\ resp = Response(Request("register", NoToken, NULL, UsernameSeq[Bob], <<>>, 0, 0, ""),
                     201, "", <<User(Bob, UsernameSeq[Bob], HashPassword(Password))>>)

\* the store after alice has then followed bob
InitFollowing ==
  /\ users = Registered
  /\ tweets = {}
  /\ likes = {}
  /\ follows = {Follow(1, Alice, Bob)}
  /\ nextId = [users |-> Bob + 1, tweets |-> 1, likes |-> 1, follows |-> 2]
  /\ now = 0
  /\ threads = [t \in Threads |-> Idle]
  /\ resp = Response(Request("follow_user", Alice, Bob, "", <<>>, 0, 0, ""),
                     200, "", <<Follow(1, Alice, Bob)>>)

OneThread == {1}
TwoThreads == {1, 2}
OneContent == {<<"c">>}

\* accounts and the social graph: concurrent registration and follows, from
\* the empty store
NextAccounts == RegisterOps(Threads) \/ FollowOps(Threads, Tokens)
SpecAccounts == Init /\ [][NextAccounts]_vars

\* concurrent registration, from the empty store
NextRegister == RegisterOps(Threads)
SpecRegister == Init /\ [][NextRegister]_vars

\* concurrent follows and unfollows between the registered users
NextFollow == FollowOps(Threads, Tokens)
SpecFollow == InitRegistered /\ [][NextFollow]_vars

\* the content store: posts of the registered users, created, edited, deleted
NextTweets == Tick \/ PostOps(Tokens, Contents) \/ EditOps(Tokens, Contents)
SpecTweets == InitRegistered /\ [][NextTweets]_vars

\* posts and concurrent likes
NextLikes == PostOps(UserIds, OneContent) \/ LikeOps(Threads, UserIds)
SpecLikes == InitRegistered /\ [][NextLikes]_vars

\* bob's posts, which alice sees in her feed, and their likes, one request at
\* a time
NextCounts == PostOps({Bob}, OneContent) \/ LikeOps(OneThread, UserIds)
SpecCounts == InitFollowing /\ [][NextCounts]_vars

\* posts and the follow edges that select them into feeds, one request at a
\* time
NextFeed == Tick \/ PostOps(UserIds, OneContent) \/ FollowOps(OneThread, UserIds)
SpecFeed == InitRegistered /\ [][NextFeed]_vars

\* posts over time, created in the same instant or not, while alice follows bob
NextPages == Tick \/ PostOps(UserIds, OneContent)
SpecPages == InitFollowing /\ [][NextPages]_vars

\* bob's posts and alice's likes of them, two requests at a time
NextLiking == PostOps({Bob}, OneContent) \/ LikeOps(TwoThreads, {Alice})
SpecLiking == InitRegistered /\ [][NextLiking]_vars


\* every protected operation, called by alice or without a valid token, one
\* request at a time
AliceOrNobody == {Alice, NoToken}

NextAuth ==
  \/ PostOps(AliceOrNobody, OneContent)
  \/ EditOps(AliceOrNobody, OneContent)
  \/ LikeOps(OneThread, AliceOrNobody)
  \/ FollowOps(OneThread, AliceOrNobody)
SpecAuth == InitRegistered /\ [][NextAuth]_vars

\* posts of any content a request body may carry (schemas.TweetBase: content is
\* a str, the empty string included), written and rewritten
ContentInputs == Contents \cup {<<>>}

NextCompose == PostOps(UserIds, ContentInputs) \/ EditOps(UserIds, ContentInputs)
SpecCompose == InitRegistered /\ [][NextCompose]_vars

\* bob's posts, written and rewritten over time, and alice's likes of them, one
\* request at a time
NextEdit ==
  \/ Tick
  \/ \E content \in Contents : CreateTweet(Bob, content)
  \/ EditOps(UserIds, Contents)
  \/ \E id \in 1 .. MaxTweets : LikeCheck(1, Alice, id)
  \/ LikeInsert(1)
SpecEdit == InitRegistered /\ [][NextEdit]_vars

\* the store after bob has then posted
InitPosted ==
  /\ users = Registered
  /\ tweets = {Tweet(1, <<"c">>, Bob, 0)}
  /\ likes = {}
  /\ follows = {}
  /\ nextId = [users |-> Bob + 1, tweets |-> 2, likes |-> 1, follows |-> 1]
  /\ now = 0
  /\ threads = [t \in Threads |-> Idle]
  /\ resp = Response(Request("create_tweet", Bob, NULL, "", <<"c">>, 0, 0, ""),
                     200, "", <<TweetResponse(Tweet(1, <<"c">>, Bob, 0), 0)>>)

\* likes of bob's post and follow edges between alice and bob, made and
\* removed, one request at a time
NextSocial ==
  \/ \E token \in UserIds, id \in 1 .. MaxTweets : LikeCheck(1, token, id)
  \/ LikeInsert(1)
  \/ \E token \in UserIds, id \in 1 .. MaxTweets : UnlikeTweet(token, id)
  \/ FollowOps(OneThread, UserIds)
SpecSocial == InitPosted /\ [][NextSocial]_vars

\* bob's posts, created and deleted while alice, who follows him, likes and
\* unlikes them, one request at a time
NextDelete == PostOps({Bob}, OneContent) \/ LikeOps(OneThread, {Alice})
SpecDelete == InitFollowing /\ [][NextDelete]_vars

(* ------------------------------ claims --------------------------------- *)
Authenticated(token) == GetCurrentUser(token) # NULL

\* C1: the store never holds two Like rows of the same (user_id, tweet_id)
\* pair, whatever the interleaving of like_tweet requests.
C1_OneLikePerPair ==
  \A l1 \in likes, l2 \in likes :
    (l1.tweet_id # NULL /\ l1.user_id = l2.user_id /\ l1.tweet_id = l2.tweet_id)
      => l1 = l2

\* C2: the store never holds two Follow rows of the same ordered
\* (follower_id, followed_id) pair, whatever the interleaving of follow_user
\* requests.
C2_OneFollowPerPair ==
  \A f1 \in follows, f2 \in follows :
    (f1.follower_id = f2.follower_id /\ f1.followed_id = f2.followed_id) => f1 = f2

\* a second follow_user of the same pair passed its check and was turned down
\* by the store
C2_Witness ==
  /\ resp.req.op = "follow_user"
  /\ resp.status = 500
  /\ \E f \in follows :
       f.follower_id = GetCurrentUser(resp.req.token) /\ f.followed_id = resp.req.id

\* C3: no two accounts share a username, in every interleaving of register
\* requests; a register request that finds its username in the store is
\* answered 400 'Username already registered' and creates no account.
C3_UsernameUnique ==
  /\ [](\A u1 \in users, u2 \in users : u1.username = u2.username => u1 = u2)
  /\ [][\A t \in Threads, username \in Usernames :
          (RegisterCheck(t, username) /\ \E u \in users : u.username = username)
            => /\ resp'.req.op = "register"
               /\ resp'.req.username = username
               /\ resp'.status = 400
               /\ resp'.detail = "Username already registered"
               /\ users' = users
               /\ threads' = threads]_vars

\* a duplicate register was answered 400 while a concurrent register of another
\* name is in flight
C3_Witness ==
  /\ resp.req.op = "register"
  /\ resp.status = 400
  /\ \E u \in users : u.username = resp.req.username
  /\ \E t \in Threads : threads[t].op = "register"

\* C4: a register or follow_user request that passed its existence check and
\* loses at the store's uniqueness constraint is answered 400.
C4_RaceLoserGets400 ==
  [][\A t \in Threads :
       \/ RegisterCommit(t) /\ UsernameUnique(threads[t].username)
       \/ FollowCommit(t)
            /\ UniqueFollowerFollowed(GetCurrentUser(threads[t].token), threads[t].id)
       => resp'.status = 400]_vars

\* C5: update_tweet and delete_tweet by an authenticated non-owner of an
\* existing post are answered 403 and change nothing in the store; a post is
\* changed or removed only by a successful update_tweet / delete_tweet of its
\* owner.
C5_OnlyOwnerMutates ==
  [][/\ \A token \in Tokens, p \in tweets, content \in Contents :
          (Authenticated(token) /\ GetCurrentUser(token) # p.owner_id)
            => /\ UpdateTweet(token, p.id, content)
                    => (resp'.status = 403 /\ db' = db)
               /\ DeleteTweet(token, p.id)
                    => (resp'.status = 403 /\ db' = db)
     /\ \A p \in tweets :
          p \notin tweets'
            => /\ resp'.req.op \in {"update_tweet", "delete_tweet"}
               /\ resp'.req.id = p.id
               /\ GetCurrentUser(resp'.req.token) = p.owner_id
               /\ resp'.status \in {200, 204}]_vars

\* a non-owner's update of an existing post of another content was refused
C5_Witness ==
  /\ resp.req.op = "update_tweet"
  /\ resp.status = 403
  /\ \E p \in tweets :
       /\ p.id = resp.req.id
       /\ p.owner_id # GetCurrentUser(resp.req.token)
       /\ p.content # resp.req.content

ValidPages ==
  {p \in SkipInputs \X LimitInputs \X Sorts : ValidPage(p[1], p[2], p[3])}

Ids(body) == {body[i].id : i \in 1 .. Len(body)}

\* C6: with the window covering all results, get_feed(viewer) returns exactly
\* the posts whose owner the viewer currently follows, each once, and an empty
\* list (status 200) when the viewer follows nobody.
C6_FeedIsFollowedPosts ==
  \A viewer \in UserIds, sort \in {"asc", "desc"} :
    LET followed == {f.followed_id : f \in {x \in follows : x.follower_id = viewer}}
        expected == {t \in tweets : t.owner_id \in followed} IN
    \A r \in GetFeed(viewer, 0, LimitMax, sort) :
      /\ r.status = 200
      /\ Ids(r.body) = {t.id : t \in expected}
      /\ Len(r.body) = Cardinality(expected)
      /\ \A i \in 1 .. Len(r.body) :
           \E t \in expected :
             /\ t.id = r.body[i].id
             /\ t.owner_id = r.body[i].owner_id
             /\ t.content = r.body[i].content
      /\ followed = {} => r.body = <<>>

\* a viewer with a post of their own follows an account that has posted, and
\* another viewer has unfollowed everyone they followed
C6_Witness ==
  /\ \E viewer \in UserIds :
       /\ \E t \in tweets : t.owner_id = viewer
       /\ \E r \in GetFeed(viewer, 0, LimitMax, "desc") : Len(r.body) >= 1
  /\ \E viewer \in UserIds :
       /\ \A f \in follows : f.follower_id # viewer
       /\ nextId.follows > 1
       /\ tweets # {}

LikeRows(tweet_id) == Cardinality({l \in likes : l.tweet_id = tweet_id})

\* the responses of the four list queries, over whole and partial windows
Windows == {<<0, LimitMax>>, <<1, 1>>} \X {"asc", "desc"}

ListResponses ==
  UNION {GetTweets(w[1][1], w[1][2], w[2])
           \cup SearchTweets(<<"c">>, w[1][1], w[1][2])
           \cup UNION {GetMyTweets(v, w[1][1], w[1][2], w[2])
                         \cup GetFeed(v, w[1][1], w[1][2], w[2]) : v \in UserIds} :
         w \in Windows}

\* C7: every post returned by the global timeline, the own timeline, search or
\* the feed carries likes_count = the number of Like rows of its id; a post
\* without likes is returned, with likes_count 0.
C7_LikeCountIsLikeRows ==
  /\ \A r \in ListResponses :
       /\ r.status = 200
       /\ \A i \in 1 .. Len(r.body) : r.body[i].likes_count = LikeRows(r.body[i].id)
  /\ \A sort \in {"asc", "desc"} :
       \A r \in GetTweets(0, LimitMax, sort) \cup SearchTweets(<<"c">>, 0, LimitMax) :
         Ids(r.body) = TweetIds

\* a feed shows a post with two Like rows beside a post with none
C7_Witness ==
  \E viewer \in UserIds :
    \E r \in GetFeed(viewer, 0, LimitMax, "desc") :
      \E i, j \in 1 .. Len(r.body) :
        r.body[i].likes_count = 2 /\ r.body[j].likes_count = 0

\* C8: get_user_profile of an existing account returns the live counts of its
\* posts, of the Follow rows that point at it and of the Follow rows it
\* initiated; of an id that is no account, 404.
C8_ProfileCounts ==
  \A id \in UserIds \cup {nextId.users} :
    LET r == GetUserProfile(id) IN
    IF id \in UserIds
      THEN /\ r.status = 200
           /\ r.body[1].id = id
           /\ r.body[1].tweet_count = Cardinality({t \in tweets : t.owner_id = id})
           /\ r.body[1].follower_count = Cardinality({f \in follows : f.followed_id = id})
           /\ r.body[1].following_count = Cardinality({f \in follows : f.follower_id = id})
      ELSE r.status = 404 /\ r.body = <<>>

\* an account that has posted, deleted a post, is followed and follows nobody
C8_Witness ==
  \E u \in users :
    LET r == GetUserProfile(u.id) IN
    /\ r.body[1].tweet_count = 1
    /\ r.body[1].follower_count = 1
    /\ r.body[1].following_count = 0
    /\ nextId.tweets > 2
    /\ \A t \in tweets : t.owner_id = u.id

\* body is a window of S in created_at order: of the length the offset and limit
\* leave, without repeats, monotone, and each element at a rank its created_at
\* allows
IsWindow(body, S, skip, limit, sort) ==
  LET Before(c) == Cardinality({t \in S : IF sort = "asc" THEN t.created_at < c
                                                           ELSE t.created_at > c})
      UpTo(c) == Cardinality({t \in S : IF sort = "asc" THEN t.created_at <= c
                                                         ELSE t.created_at >= c}) IN
  /\ Len(body) <= limit
  /\ Len(body) = Min(limit, Max(0, Cardinality(S) - skip))
  /\ Ids(body) \subseteq {t.id : t \in S}
  /\ Cardinality(Ids(body)) = Len(body)
  /\ \A i \in 1 .. Len(body) :
       /\ \E t \in S : t.id = body[i].id /\ t.created_at = body[i].created_at
       /\ Before(body[i].created_at) <= skip + i - 1
       /\ skip + i <= UpTo(body[i].created_at)
  /\ \A i \in 1 .. Len(body) - 1 :
       IF sort = "asc" THEN body[i].created_at <= body[i + 1].created_at
                       ELSE body[i].created_at >= body[i + 1].created_at

\* C9: for every valid (skip, limit, sort) the global timeline, the own timeline
\* and the feed return at most limit posts: the posts at positions
\* skip .. skip+limit-1 of the filtered set in created_at order, non-decreasing
\* for asc and non-increasing for desc.
C9_PageIsWindow ==
  \A p \in ValidPages :
    /\ \A r \in GetTweets(p[1], p[2], p[3]) :
         r.status = 200 /\ IsWindow(r.body, tweets, p[1], p[2], p[3])
    /\ \A v \in UserIds :
         /\ \A r \in GetMyTweets(v, p[1], p[2], p[3]) :
              /\ r.status = 200
              /\ IsWindow(r.body, {t \in tweets : t.owner_id = v}, p[1], p[2], p[3])
         /\ \A r \in GetFeed(v, p[1], p[2], p[3]) :
              /\ r.status = 200
              /\ IsWindow(r.body,
                          {t \in tweets : \E f \in follows :
                             f.follower_id = v /\ f.followed_id = t.owner_id},
                          p[1], p[2], p[3])

\* two posts of different created_at: the second page of size 1 in ascending
\* order is the newer post, in descending order the older one
C9_Witness ==
  \E t1 \in tweets, t2 \in tweets :
    /\ t1.created_at < t2.created_at
    /\ \E r \in GetTweets(1, 1, "asc") : Ids(r.body) = {t2.id}
    /\ \E r \in GetTweets(1, 1, "desc") : Ids(r.body) = {t1.id}

\* C10: over an unchanged data set a list query with the same (skip, limit,
\* sort) returns one and the same sequence, and a first page (skip=0, limit=k)
\* and second page (skip=k, limit=k) are disjoint and together are the first 2k
\* posts of the unpaginated result.
C10_PagesDeterministic ==
  /\ \A p \in ValidPages :
       /\ Cardinality(GetTweets(p[1], p[2], p[3])) = 1
       /\ \A v \in UserIds :
            /\ Cardinality(GetMyTweets(v, p[1], p[2], p[3])) = 1
            /\ Cardinality(GetFeed(v, p[1], p[2], p[3])) = 1
  /\ \A k \in PageSizes, sort \in {"asc", "desc"} :
       \A r1 \in GetTweets(0, k, sort), r2 \in GetTweets(k, k, sort),
          all \in GetTweets(0, 2 * k, sort) :
         /\ Ids(r1.body) \cap Ids(r2.body) = {}
         /\ r1.body \o r2.body = all.body

\* the Like rows of likes' whose id no row of likes has
NewLikes == {l \in likes' : \A k \in likes : k.id # l.id}

\* C11: like_tweet of a post id that does not exist is answered 404, and of a
\* (user, post) pair already liked 400; both leave the store unchanged, and a
\* Like row is inserted only by a like_tweet request whose post-exists and
\* not-already-liked checks both passed.
C11_LikeChecksBeforeInsert ==
  [][/\ \A t \in Threads, token \in Tokens, id \in 1 .. MaxTweets :
          (Authenticated(token) /\ LikeCheck(t, token, id))
            => /\ id \notin TweetIds
                    => /\ resp'.req.op = "like_tweet"
                       /\ resp'.req.id = id
                       /\ resp'.status = 404
                       /\ db' = db
                       /\ threads' = threads
               /\ (/\ id \in TweetIds
                   /\ \E l \in likes :
                        l.user_id = GetCurrentUser(token) /\ l.tweet_id = id)
                    => /\ resp'.req.op = "like_tweet"
                       /\ resp'.req.id = id
                       /\ resp'.status = 400
                       /\ db' = db
                       /\ threads' = threads
     /\ \A t \in Threads :
          (threads[t] = Idle /\ threads'[t].op = "like_tweet")
            => /\ threads'[t].id \in TweetIds
               /\ ~ \E l \in likes :
                      /\ l.user_id = GetCurrentUser(threads'[t].token)
                      /\ l.tweet_id = threads'[t].id
               /\ db' = db
     /\ \A l \in NewLikes :
          /\ NewLikes = {l}
          /\ \E t \in Threads :
               /\ threads[t].op = "like_tweet"
               /\ threads'[t] = Idle
               /\ l.user_id = GetCurrentUser(threads[t].token)
               /\ l.tweet_id = threads[t].id]_vars

\* a like of an already liked post was answered 400 while a post id is still
\* unused, and the like of that unused id would be answered 404
C11_Witness ==
  /\ resp.req.op = "like_tweet"
  /\ resp.status = 400
  /\ \E l \in likes :
       l.user_id = GetCurrentUser(resp.req.token) /\ l.tweet_id = resp.req.id
  /\ \E id \in 1 .. MaxTweets : id \notin TweetIds

\* the Follow rows of follows' whose id no row of follows has
NewFollows == {f \in follows' : \A k \in follows : k.id # f.id}

\* C12: follow_user answers 400 'You cannot follow yourself' when the caller is
\* the target; otherwise 404 when the target is no account; otherwise 400 'You
\* are already following this user' when the edge exists; only a request that
\* passed all three inserts a Follow row, exactly one, caller -> target.  A
\* follow_user that fails leaves the store unchanged.
C12_FollowChecksInOrder ==
  [][/\ \A t \in Threads, token \in Tokens, id \in UserIds \cup {nextId.users} :
          (Authenticated(token) /\ FollowCheck(t, token, id))
            => LET me == GetCurrentUser(token)
                   failed(status, detail) ==
                     /\ resp'.req.op = "follow_user"
                     /\ resp'.req.token = token
                     /\ resp'.req.id = id
                     /\ resp'.status = status
                     /\ resp'.detail = detail
                     /\ db' = db
                     /\ threads' = threads IN
               IF me = id
                 THEN failed(400, "You cannot follow yourself")
               ELSE IF id \notin UserIds
                 THEN failed(404, "User to follow not found")
               ELSE IF \E f \in follows : f.follower_id = me /\ f.followed_id = id
                 THEN failed(400, "You are already following this user")
               ELSE /\ threads'[t].op = "follow_user"
                    /\ threads'[t].token = token
                    /\ threads'[t].id = id
                    /\ db' = db
     /\ \A t \in Threads :
          (threads[t] = Idle /\ threads'[t].op = "follow_user")
            => LET me == GetCurrentUser(threads'[t].token) IN
               /\ me # threads'[t].id
               /\ threads'[t].id \in UserIds
               /\ ~ \E f \in follows :
                      f.follower_id = me /\ f.followed_id = threads'[t].id
     /\ \A f \in NewFollows :
          /\ NewFollows = {f}
          /\ follows' = follows \cup {f}
          /\ resp'.status = 200
          /\ \E t \in Threads :
               /\ threads[t].op = "follow_user"
               /\ threads'[t] = Idle
               /\ f.follower_id = GetCurrentUser(threads[t].token)
               /\ f.followed_id = threads[t].id
     /\ (resp'.req.op = "follow_user" /\ resp'.status # 200) => db' = db]_vars

\* a follow of an id that is no account was answered 404 after a follow edge
\* was inserted
C12_Witness ==
  /\ resp.req.op = "follow_user"
  /\ resp.status = 404
  /\ resp.req.id \notin UserIds
  /\ follows # {}

\* C13: no Follow row has follower_id = followed_id, whatever the interleaving
\* of follow_user and unfollow_user requests.
C13_NoSelfFollow == \A f \in follows : f.follower_id # f.followed_id

\* a follow of oneself was refused by an account that follows another and is
\* followed back
C13_Witness ==
  /\ resp.req.op = "follow_user"
  /\ resp.status = 400
  /\ GetCurrentUser(resp.req.token) = resp.req.id
  /\ \E f \in follows, g \in follows :
       /\ f.follower_id = resp.req.id
       /\ g.followed_id = resp.req.id

\* the last response is the successful unlike_tweet of tweet_id by token
JustUnliked(token, tweet_id) ==
  resp = Response(Request("unlike_tweet", token, tweet_id, "", <<>>, 0, 0, ""),
                  200, "Unliked successfully", <<>>)

\* the last response is the successful unfollow_user of user_id by token
JustUnfollowed(token, user_id) ==
  resp = Response(Request("unfollow_user", token, user_id, "", <<>>, 0, 0, ""),
                  200, "Unfollowed successfully", <<>>)

\* C14 for unlike_tweet: a second unlike_tweet(u, t) right after a successful
\* one is answered 404 and leaves the store unchanged.
UnlikeTwiceNotFound ==
  \A token \in Tokens, id \in 1 .. MaxTweets :
    (Authenticated(token) /\ JustUnliked(token, id) /\ UnlikeTweet(token, id))
      => (resp'.status = 404 /\ db' = db)

\* C14 for unfollow_user: a second unfollow_user(u, v) right after a successful
\* one is answered 404 and leaves the store unchanged.
UnfollowTwiceNotFound ==
  \A token \in Tokens, id \in UserIds :
    (Authenticated(token) /\ JustUnfollowed(token, id) /\ UnfollowUser(token, id))
      => (resp'.status = 404 /\ db' = db)

\* C14: after a successful unlike_tweet(u, t) with no like in between, a second
\* unlike_tweet(u, t) is answered 404; after a successful unfollow_user(u, v), a
\* second unfollow_user(u, v) is answered 404; the failing call leaves the store
\* unchanged.
C14_SecondRemovalNotFound == [][UnlikeTwiceNotFound /\ UnfollowTwiceNotFound]_vars

\* C15: update_tweet and delete_tweet of a post id that does not exist are
\* answered 404 for every authenticated caller and change nothing; 403 is
\* answered only for a post that exists.
C15_NotFoundBeforeForbidden ==
  [][/\ \A token \in Tokens, id \in 1 .. MaxTweets, content \in Contents :
          (Authenticated(token) /\ id \notin TweetIds)
            => /\ UpdateTweet(token, id, content)
                    => (resp'.status = 404 /\ resp'.req.id = id /\ db' = db)
               /\ DeleteTweet(token, id)
                    => (resp'.status = 404 /\ resp'.req.id = id /\ db' = db)
     /\ (resp' # resp /\ resp'.status = 403)
          => /\ resp'.req.op \in {"update_tweet", "delete_tweet"}
             /\ \E p \in tweets :
                  p.id = resp'.req.id /\ p.owner_id # GetCurrentUser(resp'.req.token)]_vars

\* the former owner of a deleted post asked to delete it again and was
\* answered 404, while another post exists
C15_Witness ==
  /\ resp.req.op = "delete_tweet"
  /\ resp.status = 404
  /\ resp.req.id < nextId.tweets
  /\ resp.req.id \notin TweetIds
  /\ tweets # {}

\* the handlers that declare Depends(get_current_user)
Protected ==
  {"create_tweet", "update_tweet", "delete_tweet", "get_mytweets", "like_tweet",
   "unlike_tweet", "follow_user", "unfollow_user", "get_feed"}

\* a default page, a partial page and a page out of range in every parameter
PageProbes == {<<0, LimitDefault, "desc">>, <<1, 1, "asc">>, <<-1, 0, "up">>}

\* the one response a request without a verified identity may get
Unauthenticated(rs) == \A r \in rs : r.status = 401 /\ r.body = <<>>

\* C16: create_tweet, update_tweet, delete_tweet, get_mytweets, like_tweet,
\* unlike_tweet, follow_user, unfollow_user and get_feed called without a valid
\* token are answered 401 and leave the store unchanged; every step that
\* creates, changes or removes a Tweet, Like or Follow row answers a request
\* that carries a verified identity.
C16_NoTokenNoAccess ==
  /\ [](\A p \in PageProbes :
          /\ Unauthenticated(GetMyTweets(NoToken, p[1], p[2], p[3]))
          /\ Unauthenticated(GetFeed(NoToken, p[1], p[2], p[3])))
  /\ [][/\ (resp'.req.op \in Protected /\ ~ Authenticated(resp'.req.token))
             => /\ resp'.status = 401
                /\ resp'.body = <<>>
                /\ db' = db
                /\ resp' # resp => threads' = threads
        /\ <<tweets, likes, follows>>' # <<tweets, likes, follows>>
             => /\ Authenticated(resp'.req.token)
                /\ resp'.status \in {200, 204}
        /\ \A t \in Threads : threads'[t] # Idle => Authenticated(threads'[t].token)]_vars

\* a delete_tweet without token was answered 401 and the post it named is still
\* there, liked, with a follow edge in the store
C16_Witness ==
  /\ resp.req.op = "delete_tweet"
  /\ resp.req.token = NoToken
  /\ resp.status = 401
  /\ resp.req.id \in TweetIds
  /\ \E l \in likes : l.tweet_id = resp.req.id
  /\ follows # {}

\* the Tweet rows of tweets' whose id no row of tweets has
NewTweets == {p \in tweets' : \A q \in tweets : q.id # p.id}

\* C17: create_tweet with empty content is rejected and stores nothing, so
\* every stored post has non-empty content; a successful create_tweet stores
\* exactly one new post, owned by the authenticated caller, and returns it with
\* likes_count 0.
C17_CreateNonEmpty ==
  /\ [](\A p \in tweets : p.content # <<>>)
  /\ [][\A token \in Tokens, content \in ContentInputs :
          (Authenticated(token) /\ CreateTweet(token, content))
            => IF content = <<>>
                 THEN resp'.status \in {400, 422} /\ db' = db
                 ELSE /\ resp'.status = 200
                      /\ \E p \in NewTweets :
                           /\ tweets' = tweets \cup {p}
                           /\ p.owner_id = GetCurrentUser(token)
                           /\ p.content = content
                           /\ resp'.body = <<TweetResponse(p, 0)>>
                      /\ UNCHANGED <<users, likes, follows>>]_vars

\* body is in created_at order, non-decreasing for asc, non-increasing for desc
Sorted(body, sort) ==
  \A i \in 1 .. Len(body) - 1 :
    IF sort = "asc" THEN body[i].created_at <= body[i + 1].created_at
                    ELSE body[i].created_at >= body[i + 1].created_at

\* C18: search_tweets accepts sort in {asc, desc} and returns the matching posts
\* in non-decreasing created_at order for sort=asc, non-increasing for
\* sort=desc, like the other three list queries.
C18_SearchHonoursSort ==
  \A sort \in {"asc", "desc"} :
    \A r \in SearchTweetsSort(<<"c">>, 0, LimitMax, sort) :
      r.status = 200 /\ Sorted(r.body, sort)

\* keywords: of one and two letters in either case, matching nothing, and the
\* two characters LIKE gives a meaning of their own
Keywords == {<<"c">>, <<"b">>, <<"A", "b">>, <<"x">>, <<"%">>, <<"_">>}

\* text contains keyword as a substring, letters without regard to case
Contains(text, keyword) ==
  \E i \in 1 .. Len(text) - Len(keyword) + 1 :
    \A j \in 1 .. Len(keyword) : Lower(text[i + j - 1]) = Lower(keyword[j])

\* C19: for every non-empty keyword search_tweets returns, with the window
\* covering all results, exactly the posts of any owner whose current content
\* contains the keyword as a case-insensitive substring (an empty list when
\* there is none, a rewritten post by its new content); an empty keyword is
\* rejected.
C19_SearchIsSubstring ==
  /\ \A r \in SearchTweets(<<>>, 0, LimitMax) : r.status = 422 /\ r.body = <<>>
  /\ \A keyword \in Keywords :
       \A r \in SearchTweets(keyword, 0, LimitMax) :
         /\ r.status = 200
         /\ Ids(r.body) = {p.id : p \in {q \in tweets : Contains(q.content, keyword)}}
         /\ \A i \in 1 .. Len(r.body) :
              \E p \in tweets : p.id = r.body[i].id /\ p.content = r.body[i].content

\* every response is the 422 of a request that failed validation
Rejected(rs) == \A r \in rs : r.status = 422 /\ r.body = <<>>

\* every response is a 200
Accepted(rs) == \A r \in rs : r.status = 200

\* the answer of the four list queries to an authenticated caller is
\* Answer(responses) for the page (skip, limit, sort)
ListQueriesAnswer(Answer(_), skip, limit, sort) ==
  /\ Answer(GetTweets(skip, limit, sort))
  /\ Answer(SearchTweetsSort(<<"c">>, skip, limit, sort))
  /\ \A v \in UserIds :
       /\ Answer(GetMyTweets(v, skip, limit, sort))
       /\ Answer(GetFeed(v, skip, limit, sort))

\* C20: each of the four list queries answers 422, without results, when
\* skip < 0, limit < 1, limit > 100 or sort is neither asc nor desc, and accepts
\* the boundary values skip = 0, limit = 1 and limit = 100.
C20_PaginationValidated ==
  /\ \A p \in SkipInputs \X LimitInputs \X Sorts :
       (p[1] < 0 \/ p[2] < 1 \/ p[2] > 100 \/ p[3] \notin {"asc", "desc"})
         => ListQueriesAnswer(Rejected, p[1], p[2], p[3])
  /\ \A limit \in {1, 100}, sort \in {"asc", "desc"} :
       ListQueriesAnswer(Accepted, 0, limit, sort)

\* C21: every Like row references a stored post, also after delete_tweet of a
\* post that has likes and under every interleaving of like_tweet(u, t) with
\* delete_tweet(t).
C21_LikesReferencePosts == \A l \in likes : l.tweet_id \in TweetIds

\* C22: the post returned by a successful update_tweet carries likes_count = the
\* number of Like rows of that post at that time.
C22_UpdateReturnsLikeCount ==
  [][\A token \in UserIds, id \in 1 .. MaxTweets, content \in Contents :
       (UpdateTweet(token, id, content) /\ resp'.status = 200)
         => /\ resp'.body[1].id = id
            /\ resp'.body[1].likes_count = LikeRows(id)]_vars

\* what the listings rs show of each post but its content: id, created_at and
\* likes_count, position by position
Listing(rs) ==
  {[i \in 1 .. Len(r.body) |->
      <<r.body[i].id, r.body[i].created_at, r.body[i].likes_count>>] : r \in rs}

\* C23: a successful update_tweet(owner, p, content) replaces p's content and
\* nothing else: p keeps id, owner_id and created_at, every other post and the
\* users, likes and follows tables are unchanged, and the timeline (newest
\* first) lists the same posts at the same positions with the same like counts
\* as before.
C23_UpdateChangesContentOnly ==
  [][(resp' # resp /\ resp'.req.op = "update_tweet" /\ resp'.status = 200)
       => LET token == resp'.req.token
              id == resp'.req.id
              content == resp'.req.content IN
          /\ UpdateTweet(token, id, content)
          /\ \E p \in tweets :
               /\ p.id = id
               /\ p.owner_id = GetCurrentUser(token)
               /\ tweets' = (tweets \ {p}) \cup {[p EXCEPT !.content = content]}
          /\ UNCHANGED <<users, likes, follows, nextId>>
          /\ Listing(GetTweets(0, LimitMax, "desc"))' = Listing(GetTweets(0, LimitMax, "desc"))]_vars

\* a liked post, older than the clock and than another post, was rewritten by
\* its owner
C23_Witness ==
  /\ resp.req.op = "update_tweet"
  /\ resp.status = 200
  /\ LikeRows(resp.req.id) >= 1
  /\ \E p \in tweets, q \in tweets :
       /\ p.id = resp.req.id
       /\ p.content = resp.req.content
       /\ p.created_at < now
       /\ p.created_at < q.created_at
       /\ p.content # q.content

Shift(listing, tweet_id, d) ==
  {[i \in DOMAIN s |->
      IF s[i][1] = tweet_id THEN <<s[i][1], s[i][2], s[i][3] + d>> ELSE s[i]] :
     s \in listing}

\* the ids a viewer's feed returns
FeedIds(viewer) ==
  {Ids(r.body) : r \in GetFeed(viewer, 0, LimitMax, "desc")}

PostsOf(owner_id) == {t.id : t \in {x \in tweets : x.owner_id = owner_id}}

Counts(user_id) ==
  LET p == GetUserProfile(user_id).body[1] IN
  <<p.follower_count, p.following_count>>

\* C25: like then unlike, and follow then unfollow, are round trips.  A
\* like_tweet(u, t) that succeeds where u had no like of t adds one row, raises
\* t's like count in the timeline by one and adds u to get_likes(t); the
\* unlike_tweet(u, t) that follows it succeeds, removes that row and nothing
\* else, and lowers the count and shortens get_likes(t) by exactly what the
\* like added.  A follow_user(u, v) that succeeds adds the edge u -> v, one to
\* u's following_count and v's follower_count, and v's posts to u's feed; the
\* unfollow_user(u, v) that follows it removes that edge and nothing else and
\* takes the same amounts back.
C25_RoundTrips ==
  [][\A u \in UserIds, id \in 1 .. MaxUsers :
     (resp'.req.token = u /\ resp'.req.id = id) =>
     LET timeline == Listing(GetTweets(0, LimitMax, "desc"))
         liker == {x \in users : x.id = u} IN
     /\ (resp' # resp /\ resp'.req.op = "like_tweet" /\ resp'.status = 200)
          => /\ ~ \E l \in likes : l.user_id = u /\ l.tweet_id = id
             /\ likes' = likes \cup {resp'.body[1]}
             /\ resp'.body[1] \notin likes
             /\ UNCHANGED <<users, tweets, follows>>
             /\ timeline' = Shift(timeline, id, 1)
             /\ liker \cap GetLikes(id).body = {}
             /\ GetLikes(id)'.body = GetLikes(id).body \cup liker
     /\ (/\ resp.req.op = "like_tweet" /\ resp.status = 200
         /\ resp'.req.op = "unlike_tweet"
         /\ resp'.req.token = resp.req.token /\ id = resp.req.id)
          => /\ resp'.status = 200
             /\ likes' = likes \ {resp.body[1]}
             /\ resp.body[1] \in likes
             /\ UNCHANGED <<users, tweets, follows>>
             /\ timeline' = Shift(timeline, id, -1)
             /\ GetLikes(id)'.body = GetLikes(id).body \ liker
     /\ (resp' # resp /\ resp'.req.op = "follow_user" /\ resp'.status = 200)
          => /\ ~ \E f \in follows : f.follower_id = u /\ f.followed_id = id
             /\ follows' = follows \cup {resp'.body[1]}
             /\ resp'.body[1] \notin follows
             /\ UNCHANGED <<users, tweets, likes>>
             /\ Counts(u)' = <<Counts(u)[1], Counts(u)[2] + 1>>
             /\ Counts(id)' = <<Counts(id)[1] + 1, Counts(id)[2]>>
             /\ FeedIds(u) = {i \ PostsOf(id) : i \in FeedIds(u)}
             /\ FeedIds(u)' = {i \cup PostsOf(id) : i \in FeedIds(u)}
     /\ (/\ resp.req.op = "follow_user" /\ resp.status = 200
         /\ resp'.req.op = "unfollow_user"
         /\ resp'.req.token = resp.req.token /\ id = resp.req.id)
          => /\ resp'.status = 200
             /\ follows' = follows \ {resp.body[1]}
             /\ resp.body[1] \in follows
             /\ UNCHANGED <<users, tweets, likes>>
             /\ Counts(u)' = <<Counts(u)[1], Counts(u)[2] - 1>>
             /\ Counts(id)' = <<Counts(id)[1] - 1, Counts(id)[2]>>
             /\ FeedIds(u)' = {i \ PostsOf(id) : i \in FeedIds(u)}]_vars

\* alice has followed bob, who has a post and follows her, and unfollowed him
\* again, after a like was given and taken back while another like stayed
C25_Witness ==
  /\ JustUnfollowed(Alice, Bob)
  /\ PostsOf(Bob) # {}
  /\ \E f \in follows : f.follower_id = Bob /\ f.followed_id = Alice
  /\ likes # {}
  /\ Cardinality(likes) < nextId.likes - 1

\* the posts each possible response returns: id, content and like count
Posts(rs) ==
  {{<<r.body[i].id, r.body[i].content, r.body[i].likes_count>> :
      i \in 1 .. Len(r.body)} : r \in rs}

\* the posts of the four list queries, each over the whole window
TimelinePosts == Posts(GetTweets(0, LimitMax, "desc"))
OwnPosts(owner) == Posts(GetMyTweets(owner, 0, LimitMax, "desc"))
SearchPosts == Posts(SearchTweets(<<"c">>, 0, LimitMax))
FeedPosts(viewer) == Posts(GetFeed(viewer, 0, LimitMax, "desc"))

Without(posts, tweet_id) == {{x \in s : x[1] # tweet_id} : s \in posts}

\* no list query returns a post that is not in the store
OnlyStoredPosts ==
  \A s \in TimelinePosts \cup SearchPosts
             \cup UNION {OwnPosts(u) \cup FeedPosts(u) : u \in UserIds} :
    \A x \in s : x[1] \in TweetIds

\* C26: a successful delete_tweet(owner, p) takes p out of the store, and the
\* list queries return stored posts only, so p is in no later timeline, own
\* timeline, search result or follower's feed; the owner's tweet_count is one
\* lower after the delete, and each of the four queries returns every other
\* post with the content and the like count it had before.
C26_DeletedPostIsGone ==
  /\ []OnlyStoredPosts
  /\ [][\A owner \in UserIds, id \in 1 .. MaxTweets :
          (/\ resp' # resp
           /\ resp'.req.op = "delete_tweet" /\ resp'.status = 204
           /\ resp'.req.token = owner /\ resp'.req.id = id)
            => /\ id \in TweetIds
               /\ id \notin TweetIds'
               /\ nextId'.tweets = nextId.tweets
               /\ GetUserProfile(owner)'.body[1].tweet_count
                    = GetUserProfile(owner).body[1].tweet_count - 1
               /\ TimelinePosts' = Without(TimelinePosts, id)
               /\ SearchPosts' = Without(SearchPosts, id)
               /\ OwnPosts(owner)' = Without(OwnPosts(owner), id)
               /\ \A viewer \in UserIds :
                    FeedPosts(viewer)' = Without(FeedPosts(viewer), id)]_vars

\* bob has deleted a liked post while his other post, liked as well, is in the
\* store and in the feed of alice, who follows him
C26_Witness ==
  /\ resp.req.op = "delete_tweet"
  /\ resp.status = 204
  /\ resp.req.token = Bob
  /\ \E l \in likes : l.tweet_id = NULL
  /\ \E t \in tweets :
       /\ t.id # resp.req.id
       /\ t.owner_id = Bob
       /\ LikeRows(t.id) >= 1
       /\ \E s \in FeedPosts(Alice) : \E x \in s : x[1] = t.id
====
